---- MODULE Spec2Model ----
(***************************************************************************)
(* The ec2_eip module (plugins/modules/ec2_eip.py): one invocation of      *)
(* main() against an account's Elastic IP addresses.  Every function of    *)
(* the module is an operator that takes the account's addresses and the    *)
(* API calls issued so far and returns its Python return value, the new    *)
(* addresses, the new call log and, when the function ends the invocation  *)
(* (exit_json, fail_json, an uncaught exception), how it ended.            *)
(***************************************************************************)
EXTENDS Integers, Sequences, FiniteSets, TLC

\* ---------------------------------------------------------------- bounds
MaxAddrs == 3          \* address quota of the account (allocate fails beyond it)
MaxInitAddrs == 2      \* addresses the account holds before the first invocation
MaxRuns == 2           \* invocations in a row with the same desired state

\* ---------------------------------------------------------- Python values
None == [none |-> TRUE]      \* None where a dict is expected
NoIp == 0                    \* public_ip=None (addresses are numbered from 1)
NoStr == <<>>                \* a str parameter left unset; strings are character tuples
NoTags == [given |-> FALSE, dict |-> {}]     \* tags=None
TagDict(d) == [given |-> TRUE, dict |-> d]   \* tags=d, a set of <<key, value>>

Truthy(s) == s # NoStr

StartsWith(s, prefix) ==
    /\ Len(s) >= Len(prefix)
    /\ SubSeq(s, 1, Len(prefix)) = prefix

RECURSIVE LStrip(_, _)
LStrip(s, chars) ==
    IF s # <<>> /\ Head(s) \in chars THEN LStrip(Tail(s), chars) ELSE s

RECURSIVE RStrip(_, _)
RStrip(s, chars) ==
    IF s # <<>> /\ s[Len(s)] \in chars THEN RStrip(SubSeq(s, 1, Len(s) - 1), chars) ELSE s

\* str.strip(chars): drops every leading and trailing character that is in chars
Strip(s, chars) == RStrip(LStrip(s, chars), chars)

Has(d, key) == key \in DOMAIN d
Get(d, key, default) == IF d # None /\ Has(d, key) THEN d[key] ELSE default

\* ------------------------------------------------------------- the strings
InstancePrefix == <<"i", "-">>
EniPrefix == <<"e", "n", "i", "-">>
TagPrefix == <<"t", "a", "g", ":">>
TagKeyName == <<"t", "a", "g", "-", "k", "e", "y">>
DomainName == <<"d", "o", "m", "a", "i", "n">>
InstanceIdName == <<"i", "n", "s", "t", "a", "n", "c", "e", "-", "i", "d">>
InterfaceIdName == <<"n", "e", "t", "w", "o", "r", "k", "-", "i", "n", "t", "e", "r", "f", "a", "c", "e", "-", "i", "d">>

VpcInstance == <<"i", "-", "1">>          \* a running instance in a VPC
ClassicInstance == <<"i", "-", "0">>      \* a running instance outside any VPC
MissingInstance == <<"i", "-", "9">>      \* no such instance
Interface == <<"e", "n", "i", "-", "1">>  \* a network interface

EnvTag == <<"e", "n", "v">>
TagEnvTag == TagPrefix \o EnvTag
ValueA == <<"a">>
Pool == <<"p", "o", "o", "l">>

\* --------------------------------------------------- the account (cloud side)
\* An address of the account: PublicIp, Domain, the device it is associated
\* with (NoStr when unassociated) and its tags, a set of <<key, value>>.
Instances == {VpcInstance, ClassicInstance}
Interfaces == {Interface}

VpcIdOf(instance_id) == IF instance_id = VpcInstance THEN <<"v", "p", "c", "-", "1">> ELSE NoStr

\* The address as describe_addresses and allocate_address return it: a vpc
\* address has an AllocationId and, when associated, an AssociationId; a
\* standard address has neither and an empty InstanceId when unassociated.
AddressView(a) ==
    IF a.Domain = "vpc"
    THEN IF a.Device = NoStr
         THEN [PublicIp |-> a.PublicIp, Domain |-> "vpc", AllocationId |-> a.PublicIp, Tags |-> a.Tags]
         ELSE IF a.Device \in Interfaces
              THEN [PublicIp |-> a.PublicIp, Domain |-> "vpc", AllocationId |-> a.PublicIp, Tags |-> a.Tags,
                    AssociationId |-> a.PublicIp, NetworkInterfaceId |-> a.Device]
              ELSE [PublicIp |-> a.PublicIp, Domain |-> "vpc", AllocationId |-> a.PublicIp, Tags |-> a.Tags,
                    AssociationId |-> a.PublicIp, InstanceId |-> a.Device]
    ELSE [PublicIp |-> a.PublicIp, Domain |-> "standard", InstanceId |-> a.Device, Tags |-> a.Tags]

\* One filter of describe_addresses against one address.
FilterMatches(f, a) ==
    LET v == f.Values[1] IN
    IF f.Name = DomainName THEN a.Domain = v
    ELSE IF f.Name = InstanceIdName THEN a.Device = v /\ a.Device \in Instances
    ELSE IF f.Name = InterfaceIdName THEN a.Device = v /\ a.Device \in Interfaces
    ELSE IF f.Name = TagKeyName THEN \E t \in a.Tags : t[1] = v
    ELSE IF StartsWith(f.Name, TagPrefix)
         THEN <<SubSeq(f.Name, Len(TagPrefix) + 1, Len(f.Name)), v>> \in a.Tags
    ELSE FALSE

\* describe_addresses(PublicIps=..., Filters=...): the matching addresses in
\* the account's order; an unknown public IP yields the empty list.
DescribeAddresses(addrs, public_ips, filters) ==
    LET match(a) == /\ (public_ips # <<>> => \E i \in 1..Len(public_ips) : public_ips[i] = a.PublicIp)
                    /\ \A i \in 1..Len(filters) : FilterMatches(filters[i], a)
        found == SelectSeq(addrs, match)
    IN [i \in 1..Len(found) |-> AddressView(found[i])]

IpsOf(addrs) == {addrs[i].PublicIp : i \in 1..Len(addrs)}

FreshIp(addrs) == CHOOSE n \in 1..(Len(addrs) + 1) :
                      /\ n \notin IpsOf(addrs)
                      /\ \A m \in 1..(n - 1) : m \in IpsOf(addrs)

\* allocate_address(Domain=..., PublicIpv4Pool=..., TagSpecifications=...): a
\* new unassociated address, or AddressLimitExceeded at the quota.
CloudAllocate(addrs, domain, tags) ==
    IF Len(addrs) >= MaxAddrs
    THEN [ok |-> FALSE, addresses |-> addrs, ret |-> None]
    ELSE LET a == [PublicIp |-> FreshIp(addrs), Domain |-> domain, Device |-> NoStr,
                   Tags |-> tags.dict]
         IN [ok |-> TRUE, addresses |-> Append(addrs, a), ret |-> AddressView(a)]

IndexOfIp(addrs, ip) == IF ip \in IpsOf(addrs)
                        THEN CHOOSE i \in 1..Len(addrs) : addrs[i].PublicIp = ip
                        ELSE 0

\* The domain whose addresses the device takes.
DomainOf(device_id) == IF device_id = ClassicInstance THEN "standard" ELSE "vpc"

\* associate_address: fails for an unknown device, an unknown address, an
\* address of the other domain, and a vpc address held by another device
\* unless AllowReassociation; an address the device already holds on the same
\* private IP gives way to the new one.
CloudAssociate(addrs, ip, device_id, allow_reassociation) ==
    LET i == IndexOfIp(addrs, ip) IN
    IF \/ device_id \notin Instances \cup Interfaces
       \/ i = 0
    THEN [ok |-> FALSE, addresses |-> addrs]
    ELSE IF \/ addrs[i].Domain # DomainOf(device_id)
            \/ addrs[i].Device \notin {NoStr, device_id} /\ ~allow_reassociation /\ addrs[i].Domain = "vpc"
    THEN [ok |-> FALSE, addresses |-> addrs]
    ELSE [ok |-> TRUE,
          addresses |-> [j \in 1..Len(addrs) |->
                            IF j = i THEN [addrs[j] EXCEPT !.Device = device_id]
                            ELSE IF addrs[j].Device = device_id THEN [addrs[j] EXCEPT !.Device = NoStr]
                            ELSE addrs[j]]]

\* disassociate_address(association_id=...) or (public_ip=...)
CloudDisassociate(addrs, ip) ==
    LET i == IndexOfIp(addrs, ip) IN
    IF i = 0 \/ addrs[i].Device = NoStr
    THEN [ok |-> FALSE, addresses |-> addrs]
    ELSE [ok |-> TRUE, addresses |-> [addrs EXCEPT ![i].Device = NoStr]]

\* release_address(allocation_id=...): InvalidIPAddress.InUse while the
\* address is associated, False for an address that is not there; otherwise
\* the address leaves the account and the call returns True.
CloudRelease(addrs, allocation_id) ==
    LET i == IndexOfIp(addrs, allocation_id) IN
    IF i = 0 THEN [ok |-> TRUE, ret |-> FALSE, addresses |-> addrs]
    ELSE IF addrs[i].Device # NoStr THEN [ok |-> FALSE, ret |-> FALSE, addresses |-> addrs]
    ELSE [ok |-> TRUE, ret |-> TRUE, addresses |-> SelectSeq(addrs, LAMBDA a : a.PublicIp # allocation_id)]

\* ------------------------------------------------ how a function call ends
NoDomain == ""               \* domain=None (in_vpc false)

\* An API call of the log; in_use tells whether the address it names was
\* associated with a device when the call was issued.
Call(op, ip, device, pool, in_use) ==
    [op |-> op, ip |-> ip, device |-> device, pool |-> pool, in_use |-> in_use]

\* A function call that returns ret.
Return(ret, addrs, calls) == [ret |-> ret, addresses |-> addrs, calls |-> calls, exit |-> None]
\* A function call that ends the invocation.
Leave(how, addrs, calls) == [ret |-> None, addresses |-> addrs, calls |-> calls, exit |-> how]

ExitJson(payload) == [kind |-> "exit_json", payload |-> payload]
FailJson(msg) == [kind |-> "fail_json", msg |-> msg]
Uncaught(exc) == [kind |-> "exception", exc |-> exc]

IsAssociatedIp(addrs, ip) == \E i \in 1..Len(addrs) : addrs[i].PublicIp = ip /\ addrs[i].Device # NoStr

\* ------------------------------------------------------ ec2_eip.py functions
\* find_address that takes the first address when the query returns several.
find_address_first(addrs, calls, state, public_ip, device_id, is_instance) ==
    LET public_ips == IF public_ip # NoIp THEN <<public_ip>> ELSE <<>>
        filters == IF public_ip # NoIp \/ ~Truthy(device_id) THEN <<>>
                   ELSE <<[Name |-> IF is_instance THEN InstanceIdName ELSE InterfaceIdName,
                           Values |-> <<device_id>>]>>
        found == DescribeAddresses(addrs, public_ips, filters)
        calls2 == Append(calls, Call("describe_addresses", public_ip, device_id, NoStr, FALSE))
    IN  IF filters = <<>> /\ public_ip = NoIp THEN Return(None, addrs, calls)
        ELSE IF Len(found) > 0 THEN Return(found[1], addrs, calls2)
        ELSE IF state = "absent"
        THEN Leave(ExitJson([changed |-> FALSE, disassociated |-> FALSE, released |-> FALSE]), addrs, calls2)
        ELSE Return(None, addrs, calls2)

find_address(addrs, calls, state, public_ip, device_id, is_instance) ==
    LET public_ips == IF public_ip # NoIp THEN <<public_ip>> ELSE <<>>
        filters == IF public_ip # NoIp THEN <<>>
                   ELSE IF Truthy(device_id)
                        THEN <<[Name |-> IF is_instance THEN InstanceIdName ELSE InterfaceIdName,
                                Values |-> <<device_id>>]>>
                        ELSE <<>>
    IN  IF filters = <<>> /\ public_ip = NoIp
        THEN Return(None, addrs, calls)
        ELSE LET found == DescribeAddresses(addrs, public_ips, filters)
                 calls2 == Append(calls, Call("describe_addresses", public_ip, device_id, NoStr, FALSE))
             IN  IF Len(found) = 0
                 THEN IF state = "absent"
                      THEN Leave(ExitJson([changed |-> FALSE, disassociated |-> FALSE, released |-> FALSE]),
                                 addrs, calls2)
                      ELSE Return(None, addrs, calls2)
                 ELSE IF Len(found) = 1
                      THEN Return(found[1], addrs, calls2)
                      ELSE Leave(FailJson("Found more than one address"), addrs, calls2)

\* address_is_associated_with_device with the comparison lost: never associated.
address_is_associated_with_device_never(addrs, calls, state, address, device_id, is_instance) ==
    LET compare(r) == IF r.exit # None THEN r ELSE Return(FALSE, r.addresses, r.calls)
    IN  compare(find_address(addrs, calls, state, Get(address, "PublicIp", NoIp), device_id, is_instance))

address_is_associated_with_device(addrs, calls, state, address, device_id, is_instance) ==
    LET same_device(result) ==
            /\ result # None
            /\ \/ is_instance /\ Has(result, "InstanceId") /\ result.InstanceId = device_id
               \/ ~is_instance /\ Has(result, "NetworkInterfaceId") /\ result.NetworkInterfaceId = device_id
        compare(r) == IF r.exit # None THEN r ELSE Return(same_device(r.ret), r.addresses, r.calls)
    IN  compare(find_address(addrs, calls, state, Get(address, "PublicIp", NoIp), device_id, is_instance))

associate_ip_and_device(addrs, calls, state, check_mode, address, device_id, allow_reassociation, is_instance) ==
    LET target == IF is_instance /\ Get(address, "Domain", "") # "vpc"
                  THEN Get(address, "PublicIp", NoIp)
                  ELSE Get(address, "AllocationId", NoIp)
        msg == IF is_instance
               THEN "Couldn't associate Elastic IP address with instance"
               ELSE "Couldn't associate Elastic IP address with network interface"
        called(r, res, calls2) ==
            IF ~res.ok
            THEN Leave(FailJson(msg), res.addresses, calls2)
            ELSE Return(TRUE, res.addresses, calls2)
        associate(r) ==
            IF r.exit # None THEN r
            ELSE IF r.ret THEN Return(FALSE, r.addresses, r.calls)
            ELSE IF check_mode THEN Return(TRUE, r.addresses, r.calls)
            ELSE called(r, CloudAssociate(r.addresses, target, device_id, allow_reassociation),
                        Append(r.calls, Call("associate_address", target, device_id, NoStr,
                                             IsAssociatedIp(r.addresses, target))))
    IN  associate(address_is_associated_with_device(addrs, calls, state, address, device_id, is_instance))

\* disassociate_ip_and_device that reports the disassociation without the API call.
disassociate_ip_and_device_no_call(addrs, calls, state, check_mode, address, device_id, is_instance) ==
    LET disassociate(r) == IF r.exit # None THEN r ELSE Return(r.ret, r.addresses, r.calls)
    IN  disassociate(address_is_associated_with_device(addrs, calls, state, address, device_id, is_instance))

disassociate_ip_and_device(addrs, calls, state, check_mode, address, device_id, is_instance) ==
    LET target == Get(address, "PublicIp", NoIp)
        called(r, res, calls2) ==
            IF ~res.ok
            THEN Leave(FailJson("Dissassociation of Elastic IP failed"), res.addresses, calls2)
            ELSE Return(TRUE, res.addresses, calls2)
        disassociate(r) ==
            IF r.exit # None THEN r
            ELSE IF ~r.ret THEN Return(FALSE, r.addresses, r.calls)
            ELSE IF check_mode THEN Return(TRUE, r.addresses, r.calls)
            ELSE called(r, CloudDisassociate(r.addresses, target),
                        Append(r.calls, Call("disassociate_address", target, device_id, NoStr,
                                             IsAssociatedIp(r.addresses, target))))
    IN  disassociate(address_is_associated_with_device(addrs, calls, state, address, device_id, is_instance))

\* ansible_dict_to_boto3_filter_list on the one-entry dict of generate_tag_dict
ansible_dict_to_boto3_filter_list(search_tags) ==
    <<[Name |-> search_tags.key, Values |-> <<search_tags.value>>]>>

allocate_address_from_pool(addrs, calls, domain, check_mode, public_ipv4_pool, tags) ==
    LET res == CloudAllocate(addrs, domain, tags)
        calls2 == Append(calls, Call("allocate_address", NoIp, NoStr, public_ipv4_pool, FALSE))
    IN  IF check_mode THEN Return(None, addrs, calls)
        ELSE IF ~res.ok
             THEN Leave(FailJson("Couldn't allocate Elastic IP address"), res.addresses, calls2)
             ELSE Return(res.ret, res.addresses, calls2)

\* allocate_address that reuses the last unassociated address, not the first.
allocate_address_last(addrs, calls, domain, reuse_existing_ip_allowed, check_mode, tags, search_tags, public_ipv4_pool) ==
    LET dom == IF domain = NoDomain THEN "standard" ELSE domain
        filters == <<[Name |-> DomainName, Values |-> <<dom>>]>>
                   \o (IF search_tags # None THEN ansible_dict_to_boto3_filter_list(search_tags) ELSE <<>>)
        all_addresses == DescribeAddresses(addrs, <<>>, filters)
        unassociated_addresses ==
            IF dom = "vpc"
            THEN SelectSeq(all_addresses, LAMBDA a : ~Has(a, "AssociationId"))
            ELSE SelectSeq(all_addresses, LAMBDA a : a.InstanceId = NoStr)
        calls1 == IF reuse_existing_ip_allowed
                  THEN Append(calls, Call("describe_addresses", NoIp, NoStr, NoStr, FALSE))
                  ELSE calls
        pooled == allocate_address_from_pool(addrs, calls1, dom, check_mode, public_ipv4_pool, tags)
        res == CloudAllocate(addrs, dom, tags)
        calls2 == Append(calls1, Call("allocate_address", NoIp, NoStr, NoStr, FALSE))
    IN  IF reuse_existing_ip_allowed /\ unassociated_addresses # <<>>
        THEN Return([address |-> unassociated_addresses[Len(unassociated_addresses)], changed |-> FALSE],
                    addrs, calls1)
        ELSE IF Truthy(public_ipv4_pool)
        THEN IF pooled.exit # None THEN pooled
             ELSE Return([address |-> pooled.ret, changed |-> TRUE], pooled.addresses, pooled.calls)
        ELSE IF check_mode
        THEN Return([address |-> None, changed |-> TRUE], addrs, calls1)
        ELSE IF ~res.ok
        THEN Leave(FailJson("Couldn't allocate Elastic IP address"), res.addresses, calls2)
        ELSE Return([address |-> res.ret, changed |-> TRUE], res.addresses, calls2)

\* Returns the pair [address, changed].
allocate_address(addrs, calls, domain, reuse_existing_ip_allowed, check_mode, tags, search_tags, public_ipv4_pool) ==
    LET dom == IF domain = NoDomain THEN "standard" ELSE domain
        filters == <<[Name |-> DomainName, Values |-> <<dom>>]>>
                   \o (IF search_tags # None THEN ansible_dict_to_boto3_filter_list(search_tags) ELSE <<>>)
        all_addresses == DescribeAddresses(addrs, <<>>, filters)
        unassociated_addresses ==
            IF dom = "vpc"
            THEN SelectSeq(all_addresses, LAMBDA a : ~Has(a, "AssociationId"))
            ELSE SelectSeq(all_addresses, LAMBDA a : a.InstanceId = NoStr)
        calls1 == IF reuse_existing_ip_allowed
                  THEN Append(calls, Call("describe_addresses", NoIp, NoStr, NoStr, FALSE))
                  ELSE calls
        pooled == allocate_address_from_pool(addrs, calls1, dom, check_mode, public_ipv4_pool, tags)
        res == CloudAllocate(addrs, dom, tags)
        calls2 == Append(calls1, Call("allocate_address", NoIp, NoStr, NoStr, FALSE))
    IN  IF reuse_existing_ip_allowed /\ unassociated_addresses # <<>>
        THEN Return([address |-> unassociated_addresses[1], changed |-> FALSE], addrs, calls1)
        ELSE IF Truthy(public_ipv4_pool)
        THEN IF pooled.exit # None THEN pooled
             ELSE Return([address |-> pooled.ret, changed |-> TRUE], pooled.addresses, pooled.calls)
        ELSE IF check_mode
        THEN Return([address |-> None, changed |-> TRUE], addrs, calls1)
        ELSE IF ~res.ok
        THEN Leave(FailJson("Couldn't allocate Elastic IP address"), res.addresses, calls2)
        ELSE Return([address |-> res.ret, changed |-> TRUE], res.addresses, calls2)

\* release_ip_address without the check-mode test.
release_ip_address_unchecked(addrs, calls, check_mode, address) ==
    LET allocation_id == address.AllocationId
        res == CloudRelease(addrs, allocation_id)
        calls2 == Append(calls, Call("release_address", allocation_id, NoStr, NoStr,
                                     IsAssociatedIp(addrs, allocation_id)))
    IN  IF address = None THEN Leave(Uncaught("TypeError"), addrs, calls)
        ELSE IF ~Has(address, "AllocationId") THEN Leave(Uncaught("KeyError"), addrs, calls)
        ELSE IF ~res.ok
             THEN Leave(FailJson("Couldn't release Elastic IP address"), res.addresses, calls2)
             ELSE Return(res.ret, res.addresses, calls2)

release_ip_address(addrs, calls, check_mode, address) ==
    LET allocation_id == address.AllocationId
        res == CloudRelease(addrs, allocation_id)
        calls2 == Append(calls, Call("release_address", allocation_id, NoStr, NoStr,
                                     IsAssociatedIp(addrs, allocation_id)))
    IN  IF check_mode THEN Return(TRUE, addrs, calls)
        ELSE IF address = None THEN Leave(Uncaught("TypeError"), addrs, calls)
        ELSE IF ~Has(address, "AllocationId") THEN Leave(Uncaught("KeyError"), addrs, calls)
        ELSE IF ~res.ok
             THEN Leave(FailJson("Couldn't release Elastic IP address"), res.addresses, calls2)
             ELSE Return(res.ret, res.addresses, calls2)

\* The instance or interface as describe_instances / describe_network_interfaces
\* return it, None when there is none.
find_device(addrs, calls, device_id, is_instance) ==
    IF is_instance
    THEN Return(IF device_id \in Instances THEN [VpcId |-> VpcIdOf(device_id)] ELSE None,
                addrs, Append(calls, Call("describe_instances", NoIp, device_id, NoStr, FALSE)))
    ELSE Return(IF device_id \in Interfaces THEN [NetworkInterfaceId |-> device_id] ELSE None,
                addrs, Append(calls, Call("describe_network_interfaces", NoIp, device_id, NoStr, FALSE)))

generate_tag_dict(tag_name, tag_value) ==
    IF Truthy(tag_name) /\ ~Truthy(tag_value)
    THEN [ok |-> TRUE,
          ret |-> [key |-> TagKeyName,
                   value |-> IF StartsWith(tag_name, TagPrefix)
                             THEN Strip(tag_name, {"t", "a", "g", ":"})
                             ELSE tag_name]]
    ELSE IF Truthy(tag_name) /\ Truthy(tag_value)
    THEN [ok |-> TRUE,
          ret |-> [key |-> IF ~StartsWith(tag_name, TagPrefix) THEN TagPrefix \o tag_name ELSE tag_name,
                   value |-> tag_value]]
    ELSE IF Truthy(tag_value) /\ ~Truthy(tag_name)
    THEN [ok |-> FALSE, ret |-> None]
    ELSE [ok |-> TRUE, ret |-> None]

\* check_is_instance without the ENI / in_vpc test.
check_is_instance_lenient(device_id, in_vpc) ==
    IF ~Truthy(device_id) THEN [ok |-> TRUE, ret |-> FALSE]
    ELSE IF StartsWith(device_id, InstancePrefix) THEN [ok |-> TRUE, ret |-> TRUE]
    ELSE [ok |-> TRUE, ret |-> FALSE]

\* ok is FALSE where the function raises EipError.
check_is_instance(device_id, in_vpc) ==
    IF ~Truthy(device_id) THEN [ok |-> TRUE, ret |-> FALSE]
    ELSE IF StartsWith(device_id, InstancePrefix) THEN [ok |-> TRUE, ret |-> TRUE]
    ELSE IF StartsWith(device_id, EniPrefix) /\ ~in_vpc THEN [ok |-> FALSE, ret |-> FALSE]
    ELSE [ok |-> TRUE, ret |-> FALSE]

\* ensure_ec2_tags(client, module, allocation_id, tags=..., purge_tags=...):
\* nothing to do for tags=None; otherwise the address ends up with the tags
\* asked for (check mode only reports the difference).
ensure_ec2_tags(addrs, calls, check_mode, allocation_id, tags, purge_tags) ==
    LET i == IndexOfIp(addrs, allocation_id)
        current == addrs[i].Tags
        keys == {t[1] : t \in tags.dict}
        wanted == IF purge_tags THEN tags.dict
                  ELSE tags.dict \cup {t \in current : t[1] \notin keys}
    IN  IF ~tags.given \/ i = 0 THEN Return(FALSE, addrs, calls)
        ELSE IF wanted = current THEN Return(FALSE, addrs, calls)
        ELSE IF check_mode THEN Return(TRUE, addrs, calls)
        ELSE Return(TRUE, [addrs EXCEPT ![i].Tags = wanted],
                    Append(calls, Call("create_tags", allocation_id, NoStr, NoStr, FALSE)))

\* ensure_present_allocate whose check-mode exit reports no change.
ensure_present_allocate_quiet(addrs, calls, domain, address, reuse_existing_ip_allowed, check_mode, tags) ==
    IF address = None
    THEN IF check_mode
         THEN Leave(ExitJson([changed |-> FALSE]), addrs, calls)
         ELSE allocate_address(addrs, calls, domain, reuse_existing_ip_allowed, check_mode, tags, None, NoStr)
    ELSE Return([address |-> address, changed |-> FALSE], addrs, calls)

\* ensure_present up to the allocation: returns the pair [address, changed].
ensure_present_allocate(addrs, calls, domain, address, reuse_existing_ip_allowed, check_mode, tags) ==
    IF address = None
    THEN IF check_mode
         THEN Leave(ExitJson([changed |-> TRUE]), addrs, calls)
         ELSE allocate_address(addrs, calls, domain, reuse_existing_ip_allowed, check_mode, tags, None, NoStr)
    ELSE Return([address |-> address, changed |-> FALSE], addrs, calls)

\* ensure_present from the device lookup on: returns the result dict.
ensure_present_associate(addrs, calls, state, domain, address, changed, device_id, reuse_existing_ip_allowed, allow_reassociation, check_mode, is_instance) ==
    LET dev == find_device(addrs, calls, device_id, is_instance)
        instance == dev.ret
        finish(done) ==
            IF done.exit # None THEN done
            ELSE IF address = None THEN Leave(Uncaught("TypeError"), done.addresses, done.calls)
            ELSE IF ~Has(address, "AllocationId") THEN Leave(Uncaught("KeyError"), done.addresses, done.calls)
            ELSE Return([changed |-> changed \/ done.ret, public_ip |-> address.PublicIp,
                         allocation_id |-> address.AllocationId],
                        done.addresses, done.calls)
    IN  IF Truthy(device_id) /\ is_instance /\ reuse_existing_ip_allowed /\ instance = None
        THEN Leave(Uncaught("TypeError"), dev.addresses, dev.calls)
        ELSE IF /\ Truthy(device_id) /\ is_instance /\ reuse_existing_ip_allowed
                /\ Truthy(instance.VpcId) /\ Len(instance.VpcId) > 0 /\ domain = NoDomain
        THEN Leave(FailJson("You must set 'in_vpc' to true to associate an instance with an existing ip in a vpc"),
                   dev.addresses, dev.calls)
        ELSE finish(IF Truthy(device_id)
                    THEN associate_ip_and_device(dev.addresses, dev.calls, state, check_mode, address,
                                                 device_id, allow_reassociation, is_instance)
                    ELSE Return(FALSE, addrs, calls))

\* ensure_absent that takes the release branch whatever the device.
ensure_absent_ignores_device(addrs, calls, state, check_mode, address, device_id, is_instance) ==
    IF address = None THEN Return(FALSE, addrs, calls)
    ELSE release_ip_address(addrs, calls, check_mode, address)

ensure_absent(addrs, calls, state, check_mode, address, device_id, is_instance) ==
    IF address = None THEN Return(FALSE, addrs, calls)
    ELSE IF Truthy(device_id)
         THEN disassociate_ip_and_device(addrs, calls, state, check_mode, address, device_id, is_instance)
         ELSE release_ip_address(addrs, calls, check_mode, address)

\* main, state=present: ensure_ec2_tags on the result and exit_json.
main_present_exit(addrs, calls, check_mode, res, tags, purge_tags) ==
    LET t == ensure_ec2_tags(addrs, calls, check_mode, res.allocation_id, tags, purge_tags)
    IN  Leave(ExitJson([res EXCEPT !.changed = res.changed \/ t.ret]), t.addresses, t.calls)

\* main, state=present without a device, up to the allocation: returns the
\* pair [address, changed].
main_present_allocate(addrs, calls, domain, address, reuse_existing_ip_allowed, check_mode, tags, search_tags, public_ipv4_pool) ==
    IF address # None
    THEN Return([address |-> address, changed |-> FALSE], addrs, calls)
    ELSE allocate_address(addrs, calls, domain, reuse_existing_ip_allowed, check_mode, tags,
                          search_tags, public_ipv4_pool)

\* main, state=present without a device, from the result dict on.
main_present_no_device(addrs, calls, check_mode, address, changed, tags, purge_tags) ==
    IF address = None THEN Leave(ExitJson([changed |-> changed]), addrs, calls)
    ELSE IF ~Has(address, "AllocationId") THEN Leave(Uncaught("KeyError"), addrs, calls)
    ELSE main_present_exit(addrs, calls, check_mode,
                           [changed |-> changed, public_ip |-> address.PublicIp,
                            allocation_id |-> address.AllocationId],
                           tags, purge_tags)

\* main_absent_device that releases on release_on_disassociation alone.
main_absent_device_always_release(addrs, calls, check_mode, address, release_on_disassociation, disassociated) ==
    LET r == release_ip_address(addrs, calls, check_mode, address)
    IN  IF release_on_disassociation
        THEN IF r.exit # None THEN r
             ELSE Leave(ExitJson([changed |-> TRUE, disassociated |-> disassociated, released |-> r.ret]),
                        r.addresses, r.calls)
        ELSE Leave(ExitJson([changed |-> disassociated, disassociated |-> disassociated, released |-> FALSE]),
                   addrs, calls)

\* main, state=absent with a device, once ensure_absent has returned disassociated.
main_absent_device(addrs, calls, check_mode, address, release_on_disassociation, disassociated) ==
    LET r == release_ip_address(addrs, calls, check_mode, address)
    IN  IF release_on_disassociation /\ disassociated
        THEN IF r.exit # None THEN r
             ELSE Leave(ExitJson([changed |-> TRUE, disassociated |-> disassociated, released |-> r.ret]),
                        r.addresses, r.calls)
        ELSE Leave(ExitJson([changed |-> disassociated, disassociated |-> disassociated, released |-> FALSE]),
                   addrs, calls)

\* main_absent_no_device that forgets the overall changed flag.
main_absent_no_device_unchanged(addrs, calls, check_mode, address) ==
    LET r == release_ip_address(addrs, calls, check_mode, address)
    IN  IF r.exit # None THEN r
        ELSE Leave(ExitJson([changed |-> FALSE, disassociated |-> FALSE, released |-> r.ret]),
                   r.addresses, r.calls)

\* main, state=absent without a device.
main_absent_no_device(addrs, calls, check_mode, address) ==
    LET r == release_ip_address(addrs, calls, check_mode, address)
    IN  IF r.exit # None THEN r
        ELSE Leave(ExitJson([changed |-> r.ret, disassociated |-> FALSE, released |-> r.ret]),
                   r.addresses, r.calls)

\* ------------------------------------------------------------------ inputs
Devices == {NoStr, VpcInstance, ClassicInstance, MissingInstance, Interface}
PublicIps == {NoIp} \cup (1..MaxInitAddrs)
\* tag_name and tag_value: neither, a name with the tag: prefix, a name and a
\* value, a value alone.
TagFilters == {<<NoStr, NoStr>>, <<TagEnvTag, NoStr>>, <<EnvTag, ValueA>>, <<NoStr, ValueA>>}
Pools == {NoStr, Pool}

\* The options of argument_spec.  private_ip_address, which is only handed on
\* to associate_address, and tags are left unset; an option the branch of the
\* chosen state never reads keeps its default.
PresentParams ==
    {[state |-> "present", device_id |-> d, public_ip |-> ip, in_vpc |-> v,
      reuse_existing_ip_allowed |-> r, release_on_disassociation |-> FALSE,
      allow_reassociation |-> a, tag_name |-> f[1], tag_value |-> f[2],
      public_ipv4_pool |-> p, tags |-> NoTags, purge_tags |-> TRUE, check_mode |-> c] :
        d \in Devices, ip \in PublicIps, v \in BOOLEAN, r \in BOOLEAN, a \in BOOLEAN,
        f \in TagFilters, p \in Pools, c \in BOOLEAN}

AbsentParams ==
    {[state |-> "absent", device_id |-> d, public_ip |-> ip, in_vpc |-> v,
      reuse_existing_ip_allowed |-> FALSE, release_on_disassociation |-> r,
      allow_reassociation |-> FALSE, tag_name |-> f[1], tag_value |-> f[2],
      public_ipv4_pool |-> NoStr, tags |-> NoTags, purge_tags |-> TRUE, check_mode |-> c] :
        d \in Devices, ip \in PublicIps, v \in BOOLEAN, r \in BOOLEAN,
        f \in TagFilters, c \in BOOLEAN}

NoParams == CHOOSE p \in AbsentParams : TRUE

\* The accounts an invocation may meet: up to MaxInitAddrs addresses, each in
\* either domain, unassociated (with or without a tag) or associated with a
\* device of its domain.
FreeTags == {{}, {<<EnvTag, ValueA>>}}
AddressKinds ==
    [Domain : {"vpc"}, Device : {NoStr}, Tags : FreeTags]
    \cup [Domain : {"vpc"}, Device : {VpcInstance, Interface}, Tags : {{}}]
    \cup [Domain : {"standard"}, Device : {NoStr}, Tags : FreeTags]
    \cup [Domain : {"standard"}, Device : {ClassicInstance}, Tags : {{}}]

InitAccounts ==
    UNION {{[i \in 1..n |-> [PublicIp |-> i, Domain |-> k[i].Domain, Device |-> k[i].Device, Tags |-> k[i].Tags]] :
                k \in [1..n -> AddressKinds]} : n \in 0..MaxInitAddrs}

\* ------------------------------------------------------------------- state
VARIABLES
    addresses,   \* the account's addresses, in the order the API lists them
    pc,          \* where main() stands
    params,      \* module.params and module.check_mode
    address,     \* main's address
    changed,     \* ensure_present's changed / main's disassociated
    calls,       \* the API calls of this invocation, in order
    result,      \* how the invocation ended (None while it runs)
    run,         \* invocations started with these params
    history,     \* how the earlier invocations ended
    before,      \* the account as the invocation found it
    peer         \* a second invocation running at the same time (NoPeer when there is none)

vars == <<addresses, pc, params, address, changed, calls, result, run, history, before, peer>>

NoPeer == [pc |-> "none"]

domain == IF params.in_vpc THEN "vpc" ELSE NoDomain
is_instance == check_is_instance(params.device_id, params.in_vpc).ret
search_tags == generate_tag_dict(params.tag_name, params.tag_value).ret

Init ==
    /\ addresses \in InitAccounts
    /\ pc = "idle"
    /\ params = NoParams
    /\ address = None
    /\ changed = FALSE
    /\ calls = <<>>
    /\ result = None
    /\ run = 0
    /\ history = <<>>
    /\ before = addresses
    /\ peer = NoPeer

\* main up to generate_tag_dict: the two checks that need no API call.
Begin(p) ==
    /\ params' = p
    /\ address' = None
    /\ changed' = FALSE
    /\ calls' = <<>>
    /\ run' = run + 1
    /\ before' = addresses
    /\ IF ~check_is_instance(p.device_id, p.in_vpc).ok
       THEN /\ result' = FailJson("If you are specifying an ENI, in_vpc must be true")
            /\ pc' = "done"
       ELSE IF ~generate_tag_dict(p.tag_name, p.tag_value).ok
       THEN /\ result' = FailJson("parameters are required together: ('tag_name', 'tag_value')")
            /\ pc' = "done"
       ELSE /\ result' = None
            /\ pc' = "find_address"
    /\ UNCHANGED addresses

Start ==
    /\ pc = "idle"
    /\ \E p \in PresentParams \cup AbsentParams : Begin(p)
    /\ UNCHANGED <<history, peer>>

\* The same invocation again after it went through without check mode,
\* nobody else having touched the account.
Rerun ==
    /\ pc = "done"
    /\ result.kind = "exit_json"
    /\ ~params.check_mode
    /\ run < MaxRuns
    /\ Begin(params)
    /\ history' = Append(history, result)
    /\ UNCHANGED peer

\* The outcome r of a function call: the invocation goes on at next, or ends.
Step(r, next) ==
    /\ addresses' = r.addresses
    /\ calls' = r.calls
    /\ result' = r.exit
    /\ pc' = IF r.exit # None THEN "done" ELSE next

Locate ==
    /\ pc = "find_address"
    /\ \E r \in {find_address(addresses, calls, params.state, params.public_ip, params.device_id, is_instance)} :
           /\ Step(r, IF params.state = "present"
                      THEN IF Truthy(params.device_id) THEN "ensure_present" ELSE "allocate_address"
                      ELSE IF Truthy(params.device_id) THEN "ensure_absent" ELSE "release_ip_address")
           /\ address' = r.ret
    /\ UNCHANGED <<params, changed, run, history, before, peer>>

PresentAllocate ==
    /\ pc = "ensure_present"
    /\ \E r \in {ensure_present_allocate(addresses, calls, domain, address,
                                       params.reuse_existing_ip_allowed, params.check_mode, params.tags)} :
           /\ Step(r, "associate")
           /\ address' = IF r.exit # None THEN address ELSE r.ret.address
           /\ changed' = IF r.exit # None THEN changed ELSE r.ret.changed
    /\ UNCHANGED <<params, run, history, before, peer>>

PresentAssociate ==
    /\ pc = "associate"
    /\ \E r \in {ensure_present_associate(addresses, calls, params.state, domain, address, changed,
                                        params.device_id, params.reuse_existing_ip_allowed,
                                        params.allow_reassociation, params.check_mode, is_instance)} :
           Step(IF r.exit # None THEN r
                ELSE main_present_exit(r.addresses, r.calls, params.check_mode, r.ret,
                                       params.tags, params.purge_tags),
                "done")
    /\ UNCHANGED <<params, address, changed, run, history, before, peer>>

PresentNoDevice ==
    /\ pc = "allocate_address"
    /\ \E r \in {main_present_allocate(addresses, calls, domain, address, params.reuse_existing_ip_allowed,
                                     params.check_mode, params.tags, search_tags, params.public_ipv4_pool)} :
           /\ Step(IF r.exit # None THEN r
                   ELSE main_present_no_device(r.addresses, r.calls, params.check_mode, r.ret.address,
                                               r.ret.changed, params.tags, params.purge_tags),
                   "done")
           /\ address' = IF r.exit # None THEN address ELSE r.ret.address
           /\ changed' = IF r.exit # None THEN changed ELSE r.ret.changed
    /\ UNCHANGED <<params, run, history, before, peer>>

AbsentDisassociate ==
    /\ pc = "ensure_absent"
    /\ \E r \in {ensure_absent(addresses, calls, params.state, params.check_mode, address,
                             params.device_id, is_instance)} :
           /\ Step(r, "release_on_disassociation")
           /\ changed' = IF r.exit # None THEN changed ELSE r.ret
    /\ UNCHANGED <<params, address, run, history, before, peer>>

AbsentDeviceRelease ==
    /\ pc = "release_on_disassociation"
    /\ Step(main_absent_device(addresses, calls, params.check_mode, address,
                               params.release_on_disassociation, changed),
            "done")
    /\ UNCHANGED <<params, address, changed, run, history, before, peer>>

AbsentNoDevice ==
    /\ pc = "release_ip_address"
    /\ Step(main_absent_no_device(addresses, calls, params.check_mode, address), "done")
    /\ UNCHANGED <<params, address, changed, run, history, before, peer>>

Next ==
    \/ Start
    \/ Rerun
    \/ Locate
    \/ PresentAllocate
    \/ PresentAssociate
    \/ PresentNoDevice
    \/ AbsentDisassociate
    \/ AbsentDeviceRelease
    \/ AbsentNoDevice

Spec == Init /\ [][Next]_vars

\* ------------------------------------------------- two invocations at once
\* Two state=present invocations with a device and reuse_existing_ip_allowed,
\* started by two controllers against the same account.  Each is main() as
\* above; nothing but the account is shared, and every API call of one may
\* fall between two calls of the other.
RaceDevices == {VpcInstance, ClassicInstance, Interface}
RaceParams ==
    {p \in PresentParams :
        /\ p.device_id \in RaceDevices /\ p.public_ip = NoIp
        /\ p.reuse_existing_ip_allowed /\ ~p.check_mode
        /\ p.tag_name = NoStr /\ p.tag_value = NoStr /\ p.public_ipv4_pool = NoStr
        /\ check_is_instance(p.device_id, p.in_vpc).ok}

DomainFor(p) == IF p.in_vpc THEN "vpc" ELSE NoDomain
IsInstanceFor(p) == check_is_instance(p.device_id, p.in_vpc).ret

RaceInit ==
    /\ addresses \in InitAccounts
    /\ pc = "find_address"
    /\ params \in RaceParams
    /\ address = None
    /\ changed = FALSE
    /\ calls = <<>>
    /\ result = None
    /\ run = 1
    /\ history = <<>>
    /\ before = addresses
    /\ peer \in [pc : {"find_address"}, params : RaceParams, address : {None}, changed : {FALSE},
                 calls : {<<>>}, result : {None}]

\* The outcome r of a function call of the second invocation.
PeerStep(r, next) ==
    [peer EXCEPT !.calls = r.calls, !.result = r.exit, !.pc = IF r.exit # None THEN "done" ELSE next]

PeerLocate ==
    /\ peer.pc = "find_address"
    /\ \E r \in {find_address(addresses, peer.calls, peer.params.state, peer.params.public_ip, peer.params.device_id, IsInstanceFor(peer.params))} :
           /\ addresses' = r.addresses
           /\ peer' = [PeerStep(r, "ensure_present") EXCEPT !.address = r.ret]
    /\ UNCHANGED <<pc, params, address, changed, calls, result, run, history, before>>

PeerAllocate ==
    /\ peer.pc = "ensure_present"
    /\ \E r \in {ensure_present_allocate(addresses, peer.calls, DomainFor(peer.params), peer.address,
                                       peer.params.reuse_existing_ip_allowed, peer.params.check_mode,
                                       peer.params.tags)} :
           /\ addresses' = r.addresses
           /\ peer' = [PeerStep(r, "associate") EXCEPT
                          !.address = IF r.exit # None THEN peer.address ELSE r.ret.address,
                          !.changed = IF r.exit # None THEN peer.changed ELSE r.ret.changed]
    /\ UNCHANGED <<pc, params, address, changed, calls, result, run, history, before>>

PeerAssociate ==
    /\ peer.pc = "associate"
    /\ \E r \in {ensure_present_associate(addresses, peer.calls, peer.params.state, DomainFor(peer.params),
                                        peer.address, peer.changed, peer.params.device_id,
                                        peer.params.reuse_existing_ip_allowed,
                                        peer.params.allow_reassociation, peer.params.check_mode,
                                        IsInstanceFor(peer.params))} :
           \E e \in {IF r.exit # None THEN r
                     ELSE main_present_exit(r.addresses, r.calls, peer.params.check_mode, r.ret,
                                            peer.params.tags, peer.params.purge_tags)} :
               /\ addresses' = e.addresses
               /\ peer' = PeerStep(e, "done")
    /\ UNCHANGED <<pc, params, address, changed, calls, result, run, history, before>>

RaceNext ==
    \/ Locate
    \/ PresentAllocate
    \/ PresentAssociate
    \/ PeerLocate
    \/ PeerAllocate
    \/ PeerAssociate

SpecRace == RaceInit /\ [][RaceNext]_vars

\* ------------------------------------------- a dry run, then the real run
\* The invocation in check mode, then the same options without check mode,
\* nobody else having touched the account in between.
DryStart ==
    /\ pc = "idle"
    /\ \E p \in {q \in PresentParams \cup AbsentParams : q.check_mode} : Begin(p)
    /\ UNCHANGED <<history, peer>>

RealRun ==
    /\ pc = "done"
    /\ params.check_mode
    /\ run < MaxRuns
    /\ Begin([params EXCEPT !.check_mode = FALSE])
    /\ history' = Append(history, result)
    /\ UNCHANGED peer

DryNext ==
    \/ DryStart
    \/ RealRun
    \/ Locate
    \/ PresentAllocate
    \/ PresentAssociate
    \/ PresentNoDevice
    \/ AbsentDisassociate
    \/ AbsentDeviceRelease
    \/ AbsentNoDevice

SpecDry == Init /\ [][DryNext]_vars

\* ------------------------------------------------------------ vocabulary
Kind(r) == IF Has(r, "kind") THEN r.kind ELSE "running"
Done == pc = "done"
Exited == Done /\ Kind(result) = "exit_json"
Failed == Done /\ Kind(result) = "fail_json"
Issued(op) == {i \in 1..Len(calls) : calls[i].op = op}
Mutating == {"allocate_address", "associate_address", "disassociate_address", "release_address"}
NoMutatingCall == \A i \in 1..Len(calls) : calls[i].op \notin Mutating
Reported(field) == Exited /\ Has(result.payload, field) /\ result.payload[field]
WithDevice == Truthy(params.device_id)
InvalidCombination ==
    \/ StartsWith(params.device_id, EniPrefix) /\ ~params.in_vpc
    \/ Truthy(params.tag_value) /\ ~Truthy(params.tag_name)

\* ------------------------------------------------------------------- C1
\* The invocation that has just ended repeats one that succeeded without check mode.
SecondOfTwo ==
    /\ Done
    /\ run >= 2
    /\ ~params.check_mode
    /\ Kind(history[run - 1]) = "exit_json"

NothingToDo ==
    /\ Exited
    /\ ~result.payload.changed
    /\ Issued("allocate_address") = {}
    /\ Issued("associate_address") = {}

\* The second invocation meets the address of the first: public_ip names an
\* address of the account (the one the first invocation reported), or only the
\* device is given, or no device is given and any unassociated address is reused.
MeetsSameAddress ==
    \/ params.public_ip # NoIp /\ history[run - 1].payload.public_ip = params.public_ip
    \/ params.public_ip = NoIp /\ WithDevice
    \/ ~WithDevice /\ params.reuse_existing_ip_allowed /\ ~Truthy(params.tag_name)

DryRun == run >= 1 /\ params.check_mode

\* C2 as stated: an invocation in check mode, its options being a valid
\* combination, issues no allocate, associate, disassociate or release call,
\* leaves the account as it found it, and ends with a changed verdict.
C2_DryRunVerdict ==
    (DryRun /\ Done /\ ~InvalidCombination) =>
        /\ NoMutatingCall
        /\ addresses = before
        /\ Exited /\ Has(result.payload, "changed")

\* C2 amended: an invocation in check mode issues no allocate, associate,
\* disassociate or release call and leaves the account as it found it; when it
\* ends through exit_json its result carries changed.
C2_DryRunPure ==
    DryRun =>
        /\ NoMutatingCall
        /\ addresses = before
        /\ Exited => Has(result.payload, "changed")

\* A check-mode state=absent invocation that reports a release it did not do.
C2_Witness ==
    /\ DryRun /\ params.state = "absent"
    /\ Reported("released") /\ Reported("changed")
    /\ address # None
    /\ addresses = before /\ NoMutatingCall

\* ------------------------------------------------------------------- C3
\* C3: released=true is reported only by a state=absent invocation, either
\* without a device or with a device, release_on_disassociation set and
\* disassociated=true in the same result; a state=present invocation neither
\* reports released nor issues a release call.
C3_ReleaseGating ==
    /\ Reported("released") =>
          /\ params.state = "absent"
          /\ WithDevice => (params.release_on_disassociation /\ Reported("disassociated"))
    /\ (run >= 1 /\ params.state = "present") =>
          /\ Issued("release_address") = {}
          /\ Exited => ~Has(result.payload, "released")

\* A device was disassociated and its address released in one invocation.
C3_Witness ==
    /\ Reported("released") /\ Reported("disassociated")
    /\ WithDevice /\ params.release_on_disassociation /\ ~params.check_mode
    /\ Issued("release_address") # {}
    /\ Len(addresses) < Len(before)

\* ------------------------------------------------------------------- C4
\* C4 as stated: no release call is issued for an address that is associated
\* with a device at the moment of the call.
C4_NeverReleaseAssociated ==
    \A i \in Issued("release_address") : ~calls[i].in_use

\* C4 amended: a release call is issued only by a state=absent invocation;
\* with a device, only with release_on_disassociation and after a disassociate
\* call for the same address in the same invocation, the address being
\* unassociated at the moment of the call; without a device, for the located
\* address, whether it is associated or not.
C4_ReleasePaths ==
    \A i \in Issued("release_address") :
        /\ params.state = "absent"
        /\ address # None /\ calls[i].ip = address.AllocationId
        /\ WithDevice =>
              /\ params.release_on_disassociation
              /\ ~calls[i].in_use
              /\ \E j \in Issued("disassociate_address") : j < i /\ calls[j].ip = address.PublicIp

\* A release call after the disassociation of the same invocation.
C4_Witness ==
    /\ Issued("release_address") # {} /\ Issued("disassociate_address") # {}
    /\ WithDevice /\ Exited

\* ------------------------------------------------------------------- C5
AllocatorDomain == IF domain = NoDomain THEN "standard" ELSE domain
\* The tag filter the call site hands to allocate_address.
AllocatorFilter == IF pc = "allocate_address" THEN search_tags ELSE None
AllocatorRuns ==
    /\ address = None
    /\ pc = "allocate_address" \/ (pc = "ensure_present" /\ ~params.check_mode)

MatchesFilter(a, filter) ==
    \/ filter = None
    \/ filter # None /\ filter.key = TagKeyName /\ \E t \in a.Tags : t[1] = filter.value
    \/ filter # None /\ filter.key # TagKeyName
          /\ \E t \in a.Tags : TagPrefix \o t[1] = filter.key /\ t[2] = filter.value

Reusable ==
    SelectSeq(addresses, LAMBDA a : /\ a.Domain = AllocatorDomain
                                    /\ a.Device = NoStr
                                    /\ MatchesFilter(a, AllocatorFilter))

\* C5: when allocate_address runs with reuse_existing_ip_allowed and the
\* account holds an unassociated address of the target domain that matches the
\* tag filter, it returns the first such address in the account's order with
\* changed=false and issues no allocate call, with or without a pool.
C5_ReusePreference ==
    [][(AllocatorRuns /\ params.reuse_existing_ip_allowed /\ Reusable # <<>>) =>
          /\ address' = AddressView(Reusable[1])
          /\ changed' = FALSE
          /\ Issued("allocate_address")' = {}]_vars

\* Two tagged unassociated addresses, a pool given: the first one is reused.
C5_Witness ==
    /\ Exited /\ ~WithDevice /\ params.reuse_existing_ip_allowed
    /\ Truthy(params.public_ipv4_pool) /\ Truthy(params.tag_name)
    /\ params.public_ip = NoIp
    /\ Len(before) = 2 /\ before[1].Device = NoStr /\ before[2].Device = NoStr
    /\ address # None /\ address.PublicIp = before[1].PublicIp /\ ~result.payload.changed
    /\ before[1].Domain = before[2].Domain /\ before[1].Tags = before[2].Tags
    /\ addresses = before

\* ------------------------------------------------------------------- C6
TagKeyAsked == IF StartsWith(params.tag_name, TagPrefix)
               THEN SubSeq(params.tag_name, Len(TagPrefix) + 1, Len(params.tag_name))
               ELSE params.tag_name
CarriesTagAsked(a) ==
    \E t \in a.Tags : t[1] = TagKeyAsked /\ (Truthy(params.tag_value) => t[2] = params.tag_value)

\* C6: with reuse_existing_ip_allowed and tag_name (and tag_value), every
\* address a state=present invocation selects for reuse, with a device or
\* without one, carries that tag (and that value).
C6_TagFilterEveryFlow ==
    [][(/\ AllocatorRuns /\ params.reuse_existing_ip_allowed /\ Truthy(params.tag_name)
        /\ address' # None /\ ~changed') => CarriesTagAsked(address')]_vars

\* ------------------------------------------------------------------- C7
\* C7: in a state=present invocation without check mode and with
\* public_ipv4_pool, every allocate call carries the pool, with a device or
\* without one.
C7_PoolFallback ==
    (run >= 1 /\ params.state = "present" /\ ~params.check_mode /\ Truthy(params.public_ipv4_pool)) =>
        \A i \in Issued("allocate_address") : calls[i].pool = params.public_ipv4_pool

\* ------------------------------------------------------------------- C8
\* C8: an invocation with an eni- device and in_vpc=false, or with tag_value
\* and no tag_name, ends in fail_json without any API call, for either state.
C8_InvalidFailsFirst ==
    (run >= 1 /\ InvalidCombination) =>
        /\ Failed
        /\ calls = <<>>
        /\ addresses = before

\* An ENI without in_vpc, state=absent, in an account where the ENI holds an address.
C8_Witness ==
    /\ Failed /\ params.state = "absent" /\ calls = <<>>
    /\ params.device_id = Interface /\ ~params.in_vpc /\ ~Truthy(params.tag_value)
    /\ \E i \in 1..Len(addresses) : addresses[i].Device = Interface

\* ------------------------------------------------------------------- C9
\* C9: state=absent without a device issues a release call only for a located
\* address; when none is located, with or without check mode, it issues no
\* release call and ends with released=false and changed=false.
C9_AbsentNothingLocated ==
    (Done /\ params.state = "absent" /\ ~WithDevice /\ ~InvalidCombination /\ address = None) =>
        /\ Issued("release_address") = {}
        /\ Exited
        /\ ~result.payload.released
        /\ ~result.payload.changed

\* ------------------------------------------------------------------ C10
\* C10: every exit_json of a state=absent invocation carries disassociated and
\* released, and changed equals (disassociated or released).
C10_AbsentFlags ==
    (Exited /\ params.state = "absent") =>
        /\ Has(result.payload, "disassociated")
        /\ Has(result.payload, "released")
        /\ result.payload.changed = (result.payload.disassociated \/ result.payload.released)

\* Disassociated, not released: changed rests on disassociated alone.
C10_Witness ==
    /\ Exited /\ params.state = "absent" /\ ~params.check_mode
    /\ result.payload.changed /\ result.payload.disassociated /\ ~result.payload.released
    /\ Issued("disassociate_address") # {}

\* ------------------------------------------------------------------ C11
\* The located address was associated with the device when the invocation began.
LocatedOnDevice ==
    /\ address # None
    /\ \E i \in 1..Len(before) : before[i].PublicIp = address.PublicIp /\ before[i].Device = params.device_id

AbsentAssociated ==
    /\ Done /\ params.state = "absent" /\ WithDevice
    /\ ~params.release_on_disassociation
    /\ LocatedOnDevice

DisassociatedOnly ==
    /\ Exited
    /\ result.payload = [changed |-> TRUE, disassociated |-> TRUE, released |-> FALSE]
    /\ Issued("release_address") = {}

\* The located address is still in the account and no longer on the device.
StillThereOffDevice ==
    \E i \in 1..Len(addresses) :
        addresses[i].PublicIp = address.PublicIp /\ addresses[i].Device # params.device_id

\* C11 as stated: state=absent with a device that holds the located address
\* and release_on_disassociation=false issues exactly one disassociate call
\* and no release call, reports changed=true, disassociated=true,
\* released=false, and leaves the address in the account, off the device.
C11_AbsentAssociated ==
    AbsentAssociated =>
        /\ DisassociatedOnly
        /\ Cardinality(Issued("disassociate_address")) = 1
        /\ StillThereOffDevice

\* C11 amended: the above without check mode; in check mode the same result
\* is reported, no disassociate call is issued and the address stays on the
\* device.
C11_AbsentAssociatedRun ==
    AbsentAssociated =>
        /\ DisassociatedOnly
        /\ ~params.check_mode =>
              /\ Cardinality(Issued("disassociate_address")) = 1
              /\ StillThereOffDevice
              /\ Len(addresses) = Len(before)
        /\ params.check_mode =>
              /\ Issued("disassociate_address") = {}
              /\ addresses = before

\* A network interface gave up its address; the address stays in the account.
C11_Witness ==
    /\ AbsentAssociated /\ ~params.check_mode /\ DisassociatedOnly
    /\ params.device_id = Interface /\ params.public_ip # NoIp
    /\ StillThereOffDevice
    /\ Cardinality(Issued("disassociate_address")) = 1

\* ------------------------------------------------------------------ C12
PresentAlreadyAssociated ==
    /\ Done /\ params.state = "present" /\ WithDevice
    /\ params.public_ip # NoIp
    /\ LocatedOnDevice

\* reuse_existing_ip_allowed without in_vpc: ensure_present may end in its
\* in_vpc failure.
ReuseOutsideVpc == params.reuse_existing_ip_allowed /\ ~params.in_vpc

\* C12: state=present with a device and a public_ip whose address is already
\* associated with that device issues no allocate and no associate call and
\* reports changed=false with the address's public_ip and allocation_id; an
\* associate call is issued only for an address the locator does not report
\* on that device.  (Stated for the invocations that cannot end in the
\* in_vpc failure.)
C12_AlreadyAssociated ==
    /\ (PresentAlreadyAssociated /\ ~ReuseOutsideVpc) =>
          /\ Issued("allocate_address") = {}
          /\ Issued("associate_address") = {}
          /\ Exited
          /\ ~result.payload.changed
          /\ result.payload.public_ip = params.public_ip
          /\ Has(address, "AllocationId") /\ result.payload.allocation_id = address.AllocationId
    /\ (run >= 1 /\ Issued("associate_address") # {}) => ~LocatedOnDevice

\* ------------------------------------------------------------------ C13
\* main's locate query and the addresses of the account it matches.
LocateQueried == params.public_ip # NoIp \/ WithDevice
LocateMatches ==
    IF params.public_ip # NoIp
    THEN {i \in 1..Len(before) : before[i].PublicIp = params.public_ip}
    ELSE {i \in 1..Len(before) : before[i].Device = params.device_id}
Located(n) == run >= 1 /\ Done /\ ~InvalidCombination /\ LocateQueried /\ Cardinality(LocateMatches) = n
Ambiguous == Failed /\ result.msg = "Found more than one address"

\* C13: a locate query that returns more than one address ends the
\* invocation in a failure with no allocate, associate, disassociate or
\* release call; one that returns no address ends a state=absent invocation
\* at once with changed, disassociated and released all false and no such call.
C13_LocatorAmbiguity ==
    /\ (run >= 1 /\ Done /\ ~InvalidCombination /\ LocateQueried /\ Cardinality(LocateMatches) > 1) => Ambiguous
    /\ Ambiguous => (NoMutatingCall /\ addresses = before)
    /\ (Located(0) /\ params.state = "absent") =>
          /\ Exited
          /\ result.payload = [changed |-> FALSE, disassociated |-> FALSE, released |-> FALSE]
          /\ NoMutatingCall /\ addresses = before
          /\ Len(calls) = 1

\* state=present without check mode for a device that holds two addresses.
C13_Witness ==
    /\ Ambiguous /\ params.state = "present" /\ ~params.check_mode
    /\ params.device_id = VpcInstance /\ Cardinality(LocateMatches) = 2
    /\ Len(calls) = 1

\* ------------------------------------------------------------------ C14
\* ensure_present looked the device up and there is no such device.
DeviceLookupEmpty ==
    /\ Done /\ params.state = "present" /\ WithDevice
    /\ params.device_id \notin Instances \cup Interfaces
    /\ Issued("describe_instances") \cup Issued("describe_network_interfaces") # {}

AssociateError ==
    /\ Failed
    /\ result.msg \in {"Couldn't associate Elastic IP address with instance",
                       "Couldn't associate Elastic IP address with network interface"}

\* C14: state=present without check mode, for a device whose lookup returns
\* nothing and for either value of reuse_existing_ip_allowed, goes on to the
\* associate call, and its failure is the error of that call.
C14_DeviceNotFound ==
    (DeviceLookupEmpty /\ ~params.check_mode) =>
        /\ Issued("associate_address") # {}
        /\ ~Exited => AssociateError

\* ------------------------------------------------------------------ C15
\* The unassociated addresses of the domain an invocation with options p
\* reuses from, in the account's order.
RaceReusable(p) ==
    SelectSeq(addresses, LAMBDA a : /\ a.Domain = (IF p.in_vpc THEN "vpc" ELSE "standard")
                                    /\ a.Device = NoStr)

\* C15: with two state=present invocations running at once, the reuse step of
\* each takes the first unassociated address of its domain in the account,
\* whatever the other invocation has selected and not yet associated: there
\* is no lock and no re-check between the selection and the associate call,
\* so both can hold the same address selected (C15_Witness).
C15_NoReservation ==
    [][/\ (pc = "ensure_present" /\ address = None /\ RaceReusable(params) # <<>> /\ pc' # pc) =>
              /\ pc' = "associate"
              /\ address' = AddressView(RaceReusable(params)[1])
              /\ ~changed'
       /\ (peer.pc = "ensure_present" /\ peer.address = None /\ RaceReusable(peer.params) # <<>>
           /\ peer'.pc # peer.pc) =>
              /\ peer'.pc = "associate"
              /\ peer'.address = AddressView(RaceReusable(peer.params)[1])
              /\ ~peer'.changed]_vars

\* Both invocations, for two devices, have selected the same unassociated
\* address and neither has issued its associate call.
C15_Witness ==
    /\ pc = "associate" /\ peer.pc = "associate"
    /\ params.device_id # peer.params.device_id
    /\ address # None /\ address = peer.address
    /\ ~changed /\ ~peer.changed
    /\ \A i \in 1..Len(calls) : calls[i].op # "associate_address"
    /\ \A i \in 1..Len(peer.calls) : peer.calls[i].op # "associate_address"
    /\ \E i \in 1..Len(addresses) : addresses[i].PublicIp = address.PublicIp /\ addresses[i].Device = NoStr

\* ------------------------------------------------------------------ C16
\* The real run has just succeeded; history holds the dry run before it.
RealAfterDry == Exited /\ run = 2 /\ ~params.check_mode /\ Len(history) = 1

\* C16: from every account from which the invocation without check mode
\* succeeds, the invocation in check mode ends through exit_json with the same
\* changed flag and, for state=absent, the same disassociated and released
\* flags (tags unset).
C16_DryRunAgrees ==
    RealAfterDry =>
        /\ Kind(history[1]) = "exit_json"
        /\ history[1].payload.changed = result.payload.changed
        /\ params.state = "absent" =>
              /\ history[1].payload.disassociated = result.payload.disassociated
              /\ history[1].payload.released = result.payload.released

\* A dry run that announced a disassociation and a release, and the real run
\* that did both.
C16_Witness ==
    /\ RealAfterDry /\ params.state = "absent" /\ WithDevice
    /\ result.payload.disassociated /\ result.payload.released
    /\ history[1].payload.released
    /\ Len(addresses) < Len(before)

\* ------------------------------------------------------------------ C17
\* C17: a state=present invocation without check mode that was given
\* public_ip and succeeds reports that public_ip and has issued no allocate
\* call, with a device or without one.
C17_RequestedIpKept ==
    (Exited /\ params.state = "present" /\ params.public_ip # NoIp /\ ~params.check_mode) =>
        /\ Has(result.payload, "public_ip")
        /\ result.payload.public_ip = params.public_ip
        /\ Issued("allocate_address") = {}

\* ------------------------------------------------------------------ C18
InVpcFailure ==
    /\ Failed
    /\ result.msg = "You must set 'in_vpc' to true to associate an instance with an existing ip in a vpc"

\* C18: an invocation that ends with the in_vpc failure of ensure_present has
\* issued no allocate and no associate call and leaves the account as it
\* found it.
C18_InVpcFailurePure ==
    InVpcFailure =>
        /\ Issued("allocate_address") = {}
        /\ Issued("associate_address") = {}
        /\ addresses = before

\* ------------------------------------------------------------------ C19
\* C19: an invocation whose located or allocated address is of the standard
\* domain ends in exit_json or fail_json, never in an uncaught exception.
C19_StandardStructured ==
    (Done /\ address # None /\ address.Domain = "standard") =>
        Kind(result) \in {"exit_json", "fail_json"}

====
